---------------------------- MODULE Spec2Model ----------------------------
(***************************************************************************)
(* A model of airkorea_streamlit.py: the two AirKorea fetchers             *)
(* (list_stations, station_recent_hours), the city aggregator              *)
(* (city_hourly_series), the multi-city loader (load_all_cities) and the   *)
(* top-level flow of the Streamlit script.                                 *)
(*                                                                         *)
(* Three specifications share the definitions of the functions:            *)
(*   SpecFetch  one call of list_stations and of station_recent_hours on   *)
(*              an HTTP response drawn from FetchResponses;                *)
(*   Spec       one invocation of city_hourly_series, one request per step;*)
(*   SpecLoad   one run of the script: load_all_cities province by         *)
(*              province, the empty check, the chart and the snapshot.     *)
(*                                                                         *)
(* Data.  A JSON object is a function from keys to values (a missing key   *)
(* is a key outside its DOMAIN).  A data frame is a record                 *)
(* [dtype, rows]: the dtype of its "datetime" column and the sequence of   *)
(* its rows.  An instant is a number of hours since day 1, 00:00.  A text  *)
(* timestamp "YYYY-MM-DD HH:00" is a record [day, hour], a text value is a *)
(* string.  A mean is an exact fraction [num, den] in lowest terms.        *)
(***************************************************************************)
EXTENDS Integers, Sequences, FiniteSets, TLC

VARIABLES
    \* ---- SpecFetch: one call of a fetcher
    fpc,            \* "off" | "input" | "listed" | "fetched"
    fResp,          \* the HTTP response the call receives
    fStation,       \* station_recent_hours' argument station
    fTarget,        \* station_recent_hours' argument target
    fOut,           \* what the call returned or raised
    \* ---- Spec: one invocation of city_hourly_series
    pc,             \* "off" | "list" | "loop" | "returned" | "raised"
    args,           \* [sido_kr, city_en, target, n_hours, max_stations]
    stations,       \* line 65: the list list_stations returned
    idx,            \* position of the for loop of line 68 in stations[:max_stations]
    frames,         \* line 66: the frames appended so far
    requests,       \* the HTTP requests issued so far, in order
    outcomes,       \* per selected station fetched so far: what its call did
    result,         \* what city_hourly_series returned or raised
    \* ---- SpecLoad: one run of the script
    spc,            \* "off" | "load" | "loaded" | "stopped" | "filtered" | "charted" | "snapshot" | "raised"
    widgets,        \* [n_hours, selected_cities, pollutant]: lines 103-107
    prov,           \* index in SIDO_KEYS of the next province load_all_cities visits
    lframes,        \* line 90: the frames load_all_cities appended so far
    calls,          \* per province visited: the upstream's answers and the call's result
    ts,             \* line 116
    ts_sel,         \* line 122
    ui              \* what the page shows, in order

fvars == <<fpc, fResp, fStation, fTarget, fOut>>
cvars == <<pc, args, stations, idx, frames, requests, outcomes, result>>
lvars == <<spc, widgets, prov, lframes, calls, ts, ts_sel, ui>>
vars == <<fvars, cvars, lvars>>

-----------------------------------------------------------------------------
(* Bounds of the model *)

\* days 1..MaxDay appear in text timestamps
MaxDay == 3
\* a station response carries at most MaxItems items
MaxItems == 2
\* a directory response carries at most MaxDirItems items
MaxDirItems == 3
\* station names are the first NumStations of StationUniverse
NumStations == 3
\* city_hourly_series is invoked with max_stations in 1..MaxSel
MaxSel == 3

\* in SpecLoad a province has at most MaxLoadStations stations, each answering
\* with no item, one that parses to nothing, or one reading of a day in 1..MaxLoadDay
MaxLoadStations == 2
MaxLoadDay == 2

-----------------------------------------------------------------------------
(* JSON objects, pandas' missing values *)

EmptyDict == [k \in {} |-> k]

\* dict.get(k, default)
Get(d, k, default) == IF k \in DOMAIN d THEN d[k] ELSE default

\* pandas' NaT (a timestamp that did not parse) and NaN (a value that did not)
NaT == -1
NaN == -1

Max(S) == CHOOSE x \in S : \A y \in S : y <= x
Min(S) == CHOOSE x \in S : \A y \in S : x <= y

SeqsUpTo(S, n) == UNION {[1..m -> S] : m \in 0..n}

\* the frames of a list concatenated row-wise
RECURSIVE ConcatRows(_)
ConcatRows(fs) ==
    IF fs = <<>> THEN <<>> ELSE fs[1].rows \o ConcatRows(Tail(fs))

-----------------------------------------------------------------------------
(* The upstream's answers *)

\* text timestamps: day 0 is no date, hour 24 is AirKorea's "24:00" for midnight
RawTimes ==
    {[day |-> d, hour |-> 0] : d \in 0..MaxDay} \cup {[day |-> 1, hour |-> 24]}

\* text values: "-" is AirKorea's mark for a missing reading
RawValues == {"-", "10", "30"}

StationUniverse == <<"A", "B", "C", "D", "E", "F", "G", "H">>
StationNames == {StationUniverse[i] : i \in 1..NumStations}

Pollutants == {"pm25", "pm10"}

\* an HTTP exchange: a transport or HTTP-status failure, a body that is no
\* JSON, or a JSON object
ErrorResponse == [kind |-> "error"]
TextResponse == [kind |-> "text"]
JsonResponse(j) == [kind |-> "json", json |-> j]
ItemsResponse(items) ==
    JsonResponse([response |-> [body |-> [items |-> items]]])

\* JSON bodies with the response, the body or the items level missing
ShapelessJson ==
    {EmptyDict, [response |-> EmptyDict], [response |-> [body |-> EmptyDict]]}

-----------------------------------------------------------------------------
(* list_stations, station_recent_hours *)

\* pd.to_datetime(errors="coerce") of one text timestamp
ToDatetime(raw) ==
    IF raw.day \in 1..31 /\ raw.hour \in 0..23
    THEN (raw.day - 1) * 24 + raw.hour
    ELSE NaT

NumericText == ("10" :> 10) @@ ("20" :> 20) @@ ("30" :> 30)

\* pd.to_numeric(errors="coerce") of one text value
ToNumeric(raw) ==
    IF raw \in DOMAIN NumericText THEN NumericText[raw] ELSE NaN

\* target + "Value"
ValueKey(target) ==
    CASE target = "pm25" -> "pm25Value"
      [] target = "pm10" -> "pm10Value"
      [] target = "o3" -> "o3Value"
      [] target = "no2" -> "no2Value"

\* r.json().get("response", {}).get("body", {}).get("items", [])
ItemsOf(json) ==
    Get(Get(Get(json, "response", EmptyDict), "body", EmptyDict), "items", <<>>)

\* sorted(names): StationUniverse lists the names in their sorted order
Sorted(names) ==
    SelectSeq(SubSeq(StationUniverse, 1, NumStations), LAMBDA n : n \in names)

Raised(e) == [exc |-> e]
Returned(v) == [exc |-> "none", value |-> v]

ListStations(resp) ==
    IF resp.kind = "error" THEN Raised("RequestException")
    ELSE IF resp.kind = "text" THEN Raised("JSONDecodeError")
    ELSE LET items == ItemsOf(resp.json)
         IN  IF \E i \in 1..Len(items) : "stationName" \notin DOMAIN items[i]
             THEN Raised("KeyError")
             ELSE Returned(Sorted({items[i].stationName : i \in 1..Len(items)}))

\* pd.DataFrame(columns=["datetime", target, "station"]): its columns hold objects
EmptyFrame == [dtype |-> "object", rows |-> <<>>]

\* lines 54-55: the cells of one item's row after the two conversions; a key the
\* item lacks is a missing cell, which converts to NaT or NaN
DatetimeCell(it) ==
    IF "dataTime" \in DOMAIN it THEN ToDatetime(it.dataTime) ELSE NaT
ValueCell(it, target) ==
    IF ValueKey(target) \in DOMAIN it THEN ToNumeric(it[ValueKey(target)]) ELSE NaN

\* Dropped as if line 57 read dropna(subset=["datetime"])
DroppedOnTimestampOnly(it, target) == DatetimeCell(it) = NaT

\* line 57: dropna(subset=["datetime", target])
Dropped(it, target) == DatetimeCell(it) = NaT \/ ValueCell(it, target) = NaN

\* lines 51-58 on a non-empty item list
RECURSIVE ParsedRows(_, _, _)
ParsedRows(items, station, target) ==
    IF items = <<>> THEN <<>>
    ELSE LET it == Head(items)
             rest == ParsedRows(Tail(items), station, target)
         IN  IF Dropped(it, target) THEN rest
             ELSE <<[datetime |-> DatetimeCell(it),
                     target |-> ValueCell(it, target),
                     station |-> station]>> \o rest

StationRecentHours(resp, station, target) ==
    IF resp.kind = "error" THEN Raised("RequestException")
    ELSE IF resp.kind = "text" THEN Raised("JSONDecodeError")
    ELSE LET items == ItemsOf(resp.json)
         IN  IF items = <<>> THEN Returned(EmptyFrame)
             ELSE IF \A i \in 1..Len(items) : "dataTime" \notin DOMAIN items[i]
                  THEN Raised("KeyError")
             ELSE IF \A i \in 1..Len(items) : ValueKey(target) \notin DOMAIN items[i]
                  THEN Raised("KeyError")
             ELSE Returned([dtype |-> "datetime64",
                            rows |-> ParsedRows(items, station, target)])

-----------------------------------------------------------------------------
(* SpecFetch: one call of a fetcher on one HTTP response *)

\* items as either endpoint may send them: complete, or lacking fields
FetchItems ==
    {EmptyDict}
    \cup {[stationName |-> s] : s \in StationNames}
    \cup {[dataTime |-> t] : t \in RawTimes}
    \cup {[dataTime |-> t, pm10Value |-> "-"] : t \in RawTimes}
    \cup {[dataTime |-> t, pm25Value |-> v] : t \in RawTimes, v \in RawValues}
    \cup {[stationName |-> "A", dataTime |-> t, pm25Value |-> v, pm10Value |-> "20"] :
            t \in RawTimes, v \in RawValues}

FetchResponses ==
    {ErrorResponse, TextResponse}
    \cup {JsonResponse(j) : j \in ShapelessJson}
    \cup {ItemsResponse(items) : items \in SeqsUpTo(FetchItems, MaxItems)}

NoCity ==
    /\ pc = "off" /\ args = <<>> /\ stations = <<>> /\ idx = 0 /\ frames = <<>>
    /\ requests = <<>> /\ outcomes = <<>> /\ result = <<>>

NoScript ==
    /\ spc = "off" /\ widgets = <<>> /\ prov = 0 /\ lframes = <<>> /\ calls = <<>>
    /\ ts = <<>> /\ ts_sel = <<>> /\ ui = <<>>

NoFetch ==
    /\ fpc = "off" /\ fResp = <<>> /\ fStation = "" /\ fTarget = "" /\ fOut = <<>>

InitFetch ==
    /\ fpc = "input"
    /\ fResp \in FetchResponses
    /\ fStation = "" /\ fTarget = "" /\ fOut = <<>>
    /\ NoCity /\ NoScript

\* list_stations(sido) receives fResp
CallListStations ==
    /\ fpc = "input"
    /\ fpc' = "listed"
    /\ fOut' = ListStations(fResp)
    /\ UNCHANGED <<fResp, fStation, fTarget, cvars, lvars>>

\* station_recent_hours(station, "MONTH", target) receives fResp
CallStationRecentHours ==
    /\ fpc = "input"
    /\ \E station \in StationNames, target \in Pollutants :
        /\ fStation' = station
        /\ fTarget' = target
        /\ fOut' = StationRecentHours(fResp, station, target)
    /\ fpc' = "fetched"
    /\ UNCHANGED <<fResp, cvars, lvars>>

NextFetch == CallListStations \/ CallStationRecentHours

SpecFetch == InitFetch /\ [][NextFetch]_vars

-----------------------------------------------------------------------------
(* city_hourly_series *)

RECURSIVE GCD(_, _)
GCD(a, b) == IF b = 0 THEN a ELSE GCD(b, a % b)

\* the float n / d, kept exact
Frac(n, d) == [num |-> n \div GCD(n, d), den |-> d \div GCD(n, d)]

RECURSIVE SumTarget(_)
SumTarget(rows) ==
    IF rows = <<>> THEN 0 ELSE Head(rows).target + SumTarget(Tail(rows))

\* Mean as if line 83 summed the group
MeanAsSum(rows) == Frac(SumTarget(rows), 1)

\* Series.mean() of the target column of a non-empty group
Mean(rows) == Frac(SumTarget(rows), Len(rows))

RECURSIVE SortedSeq(_)
SortedSeq(S) ==
    IF S = {} THEN <<>> ELSE <<Min(S)>> \o SortedSeq(S \ {Min(S)})

\* Selected as if line 68 looped over all of stations
SelectedAll(stationList, max_stations) == stationList

\* stations[:max_stations]
Selected(stationList, max_stations) ==
    SubSeq(stationList, 1, Min({max_stations, Len(stationList)}))

\* line 77: the dtype of the "datetime" column of pd.concat(frames).  Frames with
\* rows come from pd.to_datetime and hold timestamps; with no row at all the
\* column holds objects as soon as one frame is the empty frame of line 49
ConcatDtype(fs) ==
    IF ConcatRows(fs) = <<>> /\ \E i \in 1..Len(fs) : fs[i].dtype = "object"
    THEN "object"
    ELSE "datetime64"

\* InWindow as if line 81 were missing
InWindowAll(rows, cutoff) == rows

\* line 81: df[df["datetime"] >= cutoff]
InWindow(rows, cutoff) == SelectSeq(rows, LAMBDA r : r.datetime >= cutoff)

\* lines 83-84: groupby("datetime", as_index=False)[target].mean(), whose groups
\* come sorted by key, then the city column
Hourly(rows, city_en) ==
    LET keys == SortedSeq({rows[i].datetime : i \in 1..Len(rows)})
    IN  [k \in 1..Len(keys) |->
            [datetime |-> keys[k],
             target |-> Mean(SelectSeq(rows, LAMBDA r : r.datetime = keys[k])),
             city |-> city_en]]

\* lines 74-85.  Of an empty column, max() is nan when the column holds objects
\* and nan - timedelta raises TypeError; it is NaT when the column holds
\* timestamps, NaT - timedelta is NaT and no row compares >= NaT
Aggregate(fs, city_en, n_hours) ==
    IF fs = <<>> THEN Returned([dtype |-> "object", rows |-> <<>>])
    ELSE LET rows == ConcatRows(fs)
         IN  IF rows = <<>>
             THEN IF ConcatDtype(fs) = "object"
                  THEN Raised("TypeError")
                  ELSE Returned([dtype |-> "datetime64", rows |-> <<>>])
             ELSE LET tmax == Max({rows[i].datetime : i \in 1..Len(rows)})
                      cutoff == tmax - n_hours
                  IN  Returned([dtype |-> "datetime64",
                                rows |-> Hourly(InWindow(rows, cutoff), city_en)])

\* line 87: the keys, in insertion order, are the Korean names of the four
\* provinces, written here in Latin letters
SIDO_KEYS == <<"Seoul-kr", "Incheon-kr", "Daejeon-kr", "Busan-kr">>
SIDO_MAP ==
    ("Seoul-kr" :> "Seoul") @@ ("Incheon-kr" :> "Incheon")
    @@ ("Daejeon-kr" :> "Daejeon") @@ ("Busan-kr" :> "Busan")

DirectoryRequest(sido) ==
    [endpoint |-> "getCtprvnRltmMesureDnsty", name |-> sido]
StationRequest(station) ==
    [endpoint |-> "getMsrstnAcctoRltmMesureDnsty", name |-> station]

-----------------------------------------------------------------------------
(* Spec: one invocation of city_hourly_series, one HTTP request per step *)

\* the slider of line 103 offers 24, 48, ..., 168
NHoursChoices == {24, 48}

DirResponses ==
    {ErrorResponse, TextResponse, JsonResponse(EmptyDict)}
    \cup {ItemsResponse(items) :
            items \in SeqsUpTo({[stationName |-> s] : s \in StationNames}, MaxDirItems)}

\* readings of days 1..MaxDay with a value, and one reading that parses to nothing
CityItems ==
    {[dataTime |-> [day |-> d, hour |-> 0], pm25Value |-> v] :
        d \in 1..MaxDay, v \in {"10", "30"}}
    \cup {[dataTime |-> [day |-> 1, hour |-> 24], pm25Value |-> "-"]}

StationResponses ==
    {ErrorResponse}
    \cup {ItemsResponse(items) : items \in SeqsUpTo(CityItems, MaxItems)}

Init ==
    /\ pc = "list"
    /\ args \in {[sido_kr |-> SIDO_KEYS[k], city_en |-> SIDO_MAP[SIDO_KEYS[k]],
                  target |-> "pm25", n_hours |-> n, max_stations |-> m] :
                    k \in {1}, n \in NHoursChoices, m \in 1..MaxSel}
    /\ stations = <<>> /\ idx = 0 /\ frames = <<>>
    /\ requests = <<>> /\ outcomes = <<>> /\ result = <<>>
    /\ NoFetch /\ NoScript

\* line 65
DoListStations ==
    /\ pc = "list"
    /\ \E resp \in DirResponses :
        LET r == ListStations(resp)
        IN  /\ requests' = Append(requests, DirectoryRequest(args.sido_kr))
            /\ IF r.exc = "none"
               THEN /\ stations' = r.value
                    /\ idx' = 1
                    /\ pc' = "loop"
                    /\ UNCHANGED result
               ELSE /\ result' = r
                    /\ pc' = "raised"
                    /\ UNCHANGED <<stations, idx>>
    /\ UNCHANGED <<args, frames, outcomes, fvars, lvars>>

\* FetchStation as if lines 69-72 had no try/except: a failure ends the invocation
FetchStationPropagates ==
    /\ pc = "loop"
    /\ idx <= Len(Selected(stations, args.max_stations))
    /\ \E resp \in StationResponses :
        LET st_name == Selected(stations, args.max_stations)[idx]
            r == StationRecentHours(resp, st_name, args.target)
        IN  /\ requests' = Append(requests, StationRequest(st_name))
            /\ outcomes' = Append(outcomes, r)
            /\ IF r.exc = "none"
               THEN /\ frames' = Append(frames, r.value)
                    /\ UNCHANGED <<pc, result>>
               ELSE /\ pc' = "raised"
                    /\ result' = r
                    /\ UNCHANGED frames
    /\ idx' = idx + 1
    /\ UNCHANGED <<args, stations, fvars, lvars>>

\* lines 68-72: one turn of the loop
FetchStation ==
    /\ pc = "loop"
    /\ idx <= Len(Selected(stations, args.max_stations))
    /\ \E resp \in StationResponses :
        LET st_name == Selected(stations, args.max_stations)[idx]
            r == StationRecentHours(resp, st_name, args.target)
        IN  /\ requests' = Append(requests, StationRequest(st_name))
            /\ outcomes' = Append(outcomes, r)
            /\ frames' = IF r.exc = "none" THEN Append(frames, r.value) ELSE frames
    /\ idx' = idx + 1
    /\ UNCHANGED <<pc, args, stations, result, fvars, lvars>>

\* lines 74-85, once the loop is over
DoAggregate ==
    /\ pc = "loop"
    /\ idx > Len(Selected(stations, args.max_stations))
    /\ LET r == Aggregate(frames, args.city_en, args.n_hours)
       IN  /\ result' = r
           /\ pc' = IF r.exc = "none" THEN "returned" ELSE "raised"
    /\ UNCHANGED <<args, stations, idx, frames, requests, outcomes, fvars, lvars>>

Next == DoListStations \/ FetchStation \/ DoAggregate

Spec == Init /\ [][Next]_vars

-----------------------------------------------------------------------------
(* load_all_cities and the script, lines 89-201 *)

\* line 63: the default of max_stations, which load_all_cities leaves in place
DefaultMaxStations == 6

\* lines 68-72 as a whole: the frames of the stations whose fetch succeeded
RECURSIVE FetchAll(_, _, _)
FetchAll(names, answers, target) ==
    IF names = <<>> THEN <<>>
    ELSE LET r == StationRecentHours(answers[Head(names)], Head(names), target)
             rest == FetchAll(Tail(names), answers, target)
         IN  IF r.exc = "none" THEN <<r.value>> \o rest ELSE rest

\* lines 63-85 as one call; directory is the upstream's answer to list_stations
\* and answers[s] its answer to the request for station s
CityHourlySeries(directory, answers, city_en, target, n_hours, max_stations) ==
    LET listed == ListStations(directory)
    IN  IF listed.exc # "none" THEN listed
        ELSE Aggregate(FetchAll(Selected(listed.value, max_stations), answers, target),
                       city_en, n_hours)

\* line 107 offers pm25, pm10, o3, no2
PollutantChoices == {"pm25", "pm10"}

\* line 104
city_options == {SIDO_MAP[k] : k \in DOMAIN SIDO_MAP}

\* line 105: all cities (the default), one city, none
SelectedChoices == {city_options, {"Incheon"}, {}}

\* the station names a directory answer carries
DirectoryNames(directory) ==
    IF directory.kind = "json"
    THEN {ItemsOf(directory.json)[i].stationName :
            i \in 1..Len(ItemsOf(directory.json))}
    ELSE {}

LoadDirResponses ==
    {ErrorResponse}
    \cup {ItemsResponse([i \in 1..m |-> [stationName |-> StationUniverse[i]]]) :
            m \in 0..MaxLoadStations}

LoadStationResponses ==
    {ErrorResponse, ItemsResponse(<<>>),
     ItemsResponse(<<[dataTime |-> [day |-> 1, hour |-> 24], pm25Value |-> "-"]>>)}
    \cup {ItemsResponse(<<[dataTime |-> [day |-> d, hour |-> 0], pm25Value |-> "10"]>>) :
            d \in 1..MaxLoadDay}

InitLoad ==
    /\ spc = "load"
    /\ widgets \in [n_hours : NHoursChoices,
                    selected_cities : SelectedChoices,
                    pollutant : PollutantChoices]
    /\ prov = 1
    /\ lframes = <<>> /\ calls = <<>>
    /\ ts = <<>> /\ ts_sel = <<>> /\ ui = <<>>
    /\ NoFetch /\ NoCity

\* lines 91-92: one turn of the loop of load_all_cities; an exception of
\* city_hourly_series leaves load_all_cities and the script, and Streamlit shows it
LoadCity ==
    /\ spc = "load"
    /\ prov <= Len(SIDO_KEYS)
    /\ \E directory \in LoadDirResponses :
       \E answers \in [DirectoryNames(directory) -> LoadStationResponses] :
        LET kr == SIDO_KEYS[prov]
            r == CityHourlySeries(directory, answers, SIDO_MAP[kr],
                                  widgets.pollutant, widgets.n_hours, DefaultMaxStations)
        IN  /\ calls' = Append(calls, [sido_kr |-> kr, directory |-> directory.kind,
                                       result |-> r])
            /\ IF r.exc = "none"
               THEN /\ lframes' = Append(lframes, r.value)
                    /\ prov' = prov + 1
                    /\ UNCHANGED <<spc, ui>>
               ELSE /\ spc' = "raised"
                    /\ ui' = Append(ui, [kind |-> "exception", text |-> r.exc])
                    /\ UNCHANGED <<lframes, prov>>
    /\ UNCHANGED <<widgets, ts, ts_sel, fvars, cvars>>

\* LoadReturn as if line 93 concatenated the frames last to first
LoadReturnReversed ==
    /\ spc = "load"
    /\ prov > Len(SIDO_KEYS)
    /\ ts' = [dtype |-> ConcatDtype(lframes),
              rows |-> ConcatRows([i \in 1..Len(lframes) |->
                                      lframes[Len(lframes) + 1 - i]])]
    /\ spc' = "loaded"
    /\ UNCHANGED <<widgets, prov, lframes, calls, ts_sel, ui, fvars, cvars>>

\* lines 93 and 116: pd.concat(frames, ignore_index=True) is returned into ts
LoadReturn ==
    /\ spc = "load"
    /\ prov > Len(SIDO_KEYS)
    /\ ts' = [dtype |-> ConcatDtype(lframes), rows |-> ConcatRows(lframes)]
    /\ spc' = "loaded"
    /\ UNCHANGED <<widgets, prov, lframes, calls, ts_sel, ui, fvars, cvars>>

\* StopOnEmpty as if line 120 were missing: the error is shown and the script goes on
StopOnEmptyGoesOn ==
    /\ spc = "loaded"
    /\ ts.rows = <<>>
    /\ ui' = Append(ui, [kind |-> "error", text |-> "data loading failed"])
    /\ ts_sel' = ts.rows
    /\ spc' = "filtered"
    /\ UNCHANGED <<widgets, prov, lframes, calls, ts, fvars, cvars>>

\* lines 118-120: st.error, st.stop
StopOnEmpty ==
    /\ spc = "loaded"
    /\ ts.rows = <<>>
    /\ ui' = Append(ui, [kind |-> "error", text |-> "data loading failed"])
    /\ spc' = "stopped"
    /\ UNCHANGED <<widgets, prov, lframes, calls, ts, ts_sel, fvars, cvars>>

\* lines 118 and 122: ts is not empty; ts[ts["city"].isin(selected_cities)]
SelectCities ==
    /\ spc = "loaded"
    /\ ts.rows # <<>>
    /\ ts_sel' = SelectSeq(ts.rows, LAMBDA r : r.city \in widgets.selected_cities)
    /\ spc' = "filtered"
    /\ UNCHANGED <<widgets, prov, lframes, calls, ts, ui, fvars, cvars>>

\* lines 127-169: the line chart, with the mean line and the max and min markers
\* when ts_sel has rows
RenderChart ==
    /\ spc = "filtered"
    /\ ui' = Append(ui, [kind |-> "chart", rows |-> ts_sel,
                         annotated |-> ts_sel # <<>>])
    /\ spc' = "charted"
    /\ UNCHANGED <<widgets, prov, lframes, calls, ts, ts_sel, fvars, cvars>>

\* lines 179-183, on an exact fraction
pm25_grade(v) ==
    IF v.num <= 15 * v.den THEN "good"
    ELSE IF v.num <= 35 * v.den THEN "moderate"
    ELSE IF v.num <= 75 * v.den THEN "bad"
    ELSE "very bad"

\* lines 174-201: the rows of the latest timestamp, summarised per city
RenderSnapshot ==
    /\ spc = "charted"
    /\ LET latest_t == IF ts_sel = <<>> THEN NaT
                       ELSE Max({ts_sel[i].datetime : i \in 1..Len(ts_sel)})
           snap == SelectSeq(ts_sel, LAMBDA r : r.datetime = latest_t)
       IN  ui' = Append(ui, [kind |-> "dataframe", latest_t |-> latest_t,
                             summary |-> [i \in 1..Len(snap) |->
                                            [city |-> snap[i].city,
                                             mean |-> snap[i].target,
                                             grade |-> pm25_grade(snap[i].target)]]])
    /\ spc' = "snapshot"
    /\ UNCHANGED <<widgets, prov, lframes, calls, ts, ts_sel, fvars, cvars>>

NextLoad ==
    \/ LoadCity
    \/ LoadReturn
    \/ StopOnEmpty
    \/ SelectCities
    \/ RenderChart
    \/ RenderSnapshot

SpecLoad == InitLoad /\ [][NextLoad]_vars

-----------------------------------------------------------------------------
(* Claims on the fetchers, under SpecFetch *)

\* a text timestamp that names a valid instant, a text value that names a number
ValidTime(raw) == raw.day >= 1 /\ raw.hour >= 0 /\ raw.hour < 24
ValidValue(raw) == raw \in {"10", "20", "30"}
InstantOf(raw) == 24 * (raw.day - 1) + raw.hour

\* both fields of the item are present and parse
Parses(it, target) ==
    /\ "dataTime" \in DOMAIN it /\ ValidTime(it.dataTime)
    /\ ValueKey(target) \in DOMAIN it /\ ValidValue(it[ValueKey(target)])

FetchedItems == ItemsOf(fResp.json)

\* the body is empty or malformed for the call made: a level is missing, the items
\* list is empty, or every item lacks a field the call reads
MalformedForCall ==
    /\ fResp.kind = "json"
    /\ \/ FetchedItems = <<>>
       \/ /\ fpc = "listed"
          /\ \A i \in 1..Len(FetchedItems) : "stationName" \notin DOMAIN FetchedItems[i]
       \/ /\ fpc = "fetched"
          /\ \A i \in 1..Len(FetchedItems) :
                \/ "dataTime" \notin DOMAIN FetchedItems[i]
                \/ ValueKey(fTarget) \notin DOMAIN FetchedItems[i]

\* C8: on a successful response whose JSON body is empty or malformed (a level
\* missing, the items list empty, or the items lacking the expected fields),
\* list_stations returns the empty station list and station_recent_hours a
\* zero-row table; neither raises.
C8_MalformedPayloadIsEmpty ==
    (fpc \in {"listed", "fetched"} /\ MalformedForCall) =>
        /\ fOut.exc = "none"
        /\ fpc = "listed" => fOut.value = <<>>
        /\ fpc = "fetched" => fOut.value.rows = <<>>

\* C9: every row station_recent_hours returns has a timestamp that parsed and a
\* value that parsed and carries the requested station; the rows are, in order,
\* exactly the items whose two fields both parse.
C9_RowValidity ==
    (fpc = "fetched" /\ fOut.exc = "none") =>
        LET rows == fOut.value.rows
            kept == SelectSeq(FetchedItems, LAMBDA it : Parses(it, fTarget))
        IN  /\ \A i \in 1..Len(rows) :
                /\ rows[i].datetime # NaT /\ rows[i].datetime >= 0
                /\ rows[i].target # NaN /\ rows[i].target > 0
                /\ rows[i].station = fStation
            /\ Len(rows) = Len(kept)
            /\ \A i \in 1..Len(rows) :
                /\ rows[i].datetime = InstantOf(kept[i].dataTime)
                /\ kept[i][ValueKey(fTarget)] = "10" => rows[i].target = 10
                /\ kept[i][ValueKey(fTarget)] = "20" => rows[i].target = 20
                /\ kept[i][ValueKey(fTarget)] = "30" => rows[i].target = 30

\* a call that kept one item and dropped one whose fields are present but do not parse
C9_Witness ==
    /\ fpc = "fetched" /\ fOut.exc = "none" /\ fStation = "B"
    /\ Len(FetchedItems) = 2
    /\ Len(fOut.value.rows) = 1
    /\ \E i \in 1..2 :
        /\ "dataTime" \in DOMAIN FetchedItems[i]
        /\ ValueKey(fTarget) \in DOMAIN FetchedItems[i]
        /\ ~Parses(FetchedItems[i], fTarget)
        /\ ValidTime(FetchedItems[i].dataTime)

-----------------------------------------------------------------------------
(* Claims on city_hourly_series, under Spec *)

\* the selected stations whose fetch succeeded, as positions in outcomes
Succeeded == {i \in 1..Len(outcomes) : outcomes[i].exc = "none"}

\* the n-th of them
NthSucceeded(n) ==
    CHOOSE i \in Succeeded : Cardinality({j \in Succeeded : j <= i}) = n

\* the frames they returned, in order
SucceededFrames ==
    [n \in 1..Cardinality(Succeeded) |-> outcomes[NthSucceeded(n)].value]

\* the rows they returned: <<i, j>> is row j of station i
ContribIdx ==
    UNION {{<<i, j>> : j \in 1..Len(outcomes[i].value.rows)} : i \in Succeeded}
RowAt(p) == outcomes[p[1]].value.rows[p[2]]

\* the latest timestamp among them, and those within n_hours of it
Tmax == Max({RowAt(p).datetime : p \in ContribIdx})
InWin == {p \in ContribIdx : RowAt(p).datetime >= Tmax - args.n_hours}

RECURSIVE SumAt(_)
SumAt(G) ==
    IF G = {} THEN 0
    ELSE LET p == CHOOSE q \in G : TRUE
         IN  RowAt(p).target + SumAt(G \ {p})

TheSelected == Selected(stations, args.max_stations)

\* C2: a station whose fetch fails does not end the invocation: every selected
\* station is still fetched, the failed ones add no frame, and the series
\* returned is the aggregate of the frames of the stations that succeeded.
C2_StationFailureTolerated ==
    /\ pc = "loop" => Len(outcomes) = idx - 1
    /\ frames = SucceededFrames
    /\ pc = "raised" => \A i \in 1..Len(outcomes) : outcomes[i].exc # result.exc
    /\ pc \in {"returned", "raised"} =>
        /\ Len(outcomes) = Len(TheSelected)
        /\ \A i \in 1..Len(outcomes) : requests[i + 1] = StationRequest(TheSelected[i])
    /\ pc = "returned" =>
        result = Aggregate(SucceededFrames, args.city_en, args.n_hours)

\* the first station failed, the second was still fetched and its rows are the series
C2_Witness ==
    /\ pc = "returned"
    /\ Len(outcomes) = 3
    /\ outcomes[1].exc = "RequestException"
    /\ outcomes[2].exc = "none" /\ Len(outcomes[2].value.rows) = 2
    /\ outcomes[3].exc = "RequestException"
    /\ Len(result.value.rows) = 2

\* C3: every timestamp of the output is >= tmax - n_hours, tmax being the latest
\* timestamp among the rows of the stations that succeeded; it is the timestamp of
\* one of those rows; and tmax is a timestamp of a non-empty output.
C3_WindowBound ==
    pc = "returned" =>
        LET out == result.value.rows
        IN  IF ContribIdx = {} THEN out = <<>>
            ELSE /\ \A k \in 1..Len(out) : out[k].datetime >= Tmax - args.n_hours
                 /\ \A k \in 1..Len(out) :
                        \E p \in ContribIdx : RowAt(p).datetime = out[k].datetime
                 /\ out # <<>> => \E k \in 1..Len(out) : out[k].datetime = Tmax

\* a reading older than the window was left out, one on the cutoff was kept
C3_Witness ==
    /\ pc = "returned"
    /\ ContribIdx # {}
    /\ \E p \in ContribIdx : RowAt(p).datetime < Tmax - args.n_hours
    /\ \E p \in ContribIdx : RowAt(p).datetime = Tmax - args.n_hours
    /\ Len(result.value.rows) = 2

\* C4: the output has one row per distinct timestamp of the in-window rows, in
\* ascending order of timestamp, each with the arithmetic mean of the in-window
\* readings of that timestamp and with the city label given.
C4_PerTimestampMean ==
    pc = "returned" =>
        LET out == result.value.rows
        IN  IF ContribIdx = {} THEN out = <<>>
            ELSE /\ Len(out) = Cardinality({RowAt(p).datetime : p \in InWin})
                 /\ \A k \in 1..Len(out) :
                        LET G == {p \in InWin : RowAt(p).datetime = out[k].datetime}
                        IN  /\ G # {}
                            /\ out[k].target.den > 0
                            /\ out[k].target.num * Cardinality(G)
                                 = SumAt(G) * out[k].target.den
                            /\ out[k].city = args.city_en
                 /\ \A k \in 1..(Len(out) - 1) : out[k].datetime < out[k + 1].datetime

\* stations A, B, C: A reads 10 at T0 and T1, B reads 30 at T1, C fails; the
\* series is T0 = 10 (A alone) and T1 = 20 (A and B)
C4_Witness ==
    /\ pc = "returned"
    /\ stations = <<"A", "B", "C">>
    /\ Len(outcomes) = 3
    /\ outcomes[1].exc = "none" /\ outcomes[2].exc = "none" /\ outcomes[3].exc # "none"
    /\ outcomes[1].value.rows =
         <<[datetime |-> 0, target |-> 10, station |-> "A"],
           [datetime |-> 24, target |-> 10, station |-> "A"]>>
    /\ outcomes[2].value.rows = <<[datetime |-> 24, target |-> 30, station |-> "B"]>>
    /\ result.value.rows =
         <<[datetime |-> 0, target |-> [num |-> 10, den |-> 1], city |-> args.city_en],
           [datetime |-> 24, target |-> [num |-> 20, den |-> 1], city |-> args.city_en]>>

\* C5: when no station of the province produced a row (no station, every fetch
\* failed, or every successful fetch had zero rows), city_hourly_series returns a
\* zero-row table and does not fail.
C5_EmptyAggregation ==
    (pc \in {"returned", "raised"} /\ idx >= 1 /\ ContribIdx = {}) =>
        /\ pc = "returned"
        /\ result.value.rows = <<>>

\* C10: one directory request, then one request per station for the first
\* min(max_stations, number of stations) stations of the list list_stations
\* returned, in its order, each exactly once and none beyond.
C10_RequestSequence ==
    pc # "list" =>
        /\ Len(requests) >= 1
        /\ requests[1] = DirectoryRequest(args.sido_kr)
        /\ \A i \in 2..Len(requests) : requests[i] = StationRequest(stations[i - 1])
        /\ Len(requests) - 1 <= args.max_stations
        /\ Len(requests) - 1 <= Len(stations)
        /\ pc \in {"returned", "raised"} =>
            \/ Len(requests) - 1 = args.max_stations
            \/ Len(requests) - 1 = Len(stations)

\* more stations than max_stations, and a failed request among those made
C10_Witness ==
    /\ pc = "returned"
    /\ Len(stations) = 3 /\ args.max_stations = 2
    /\ Len(requests) = 3
    /\ outcomes[1].exc # "none"

-----------------------------------------------------------------------------
(* Claims on load_all_cities and the script, under SpecLoad *)

\* C1: a failure of the station-directory fetch of one province is caught: the
\* province contributes zero rows and load_all_cities goes on to the other
\* provinces instead of failing.
C1_DirectoryFailureContained ==
    \A i \in 1..Len(calls) :
        calls[i].directory = "error" =>
            /\ spc # "raised"
            /\ calls[i].result.exc = "none"
            /\ calls[i].result.value.rows = <<>>

\* load_all_cities has returned
Loaded == spc \in {"loaded", "stopped", "filtered", "charted", "snapshot"}

RowsOfCall(i) == calls[i].result.value.rows

RECURSIVE RowsBefore(_)
RowsBefore(i) == IF i <= 1 THEN 0 ELSE RowsBefore(i - 1) + Len(RowsOfCall(i - 1))

\* C6: the table load_all_cities returns is the outputs of one
\* city_hourly_series invocation per province of SIDO_MAP, in the mapping's
\* order, row after row: nothing added, dropped, merged or relabelled.
C6_ExactConcatenation ==
    Loaded =>
        /\ Len(calls) = Len(SIDO_KEYS)
        /\ \A i \in 1..Len(calls) :
            /\ calls[i].sido_kr = SIDO_KEYS[i]
            /\ calls[i].result.exc = "none"
            /\ \A j \in 1..Len(RowsOfCall(i)) :
                /\ ts.rows[RowsBefore(i) + j] = RowsOfCall(i)[j]
                /\ ts.rows[RowsBefore(i) + j].city = SIDO_MAP[SIDO_KEYS[i]]
        /\ Len(ts.rows) = RowsBefore(Len(calls) + 1)

\* the first province gave 2 rows, the third gave 1, the others none: the table
\* has the first's 2 rows then the third's
C6_Witness ==
    /\ spc = "loaded"
    /\ Len(RowsOfCall(1)) = 2 /\ RowsOfCall(2) = <<>>
    /\ Len(RowsOfCall(3)) = 1 /\ RowsOfCall(4) = <<>>
    /\ Len(ts.rows) = 3
    /\ ts.rows[1].city = "Seoul" /\ ts.rows[2].city = "Seoul"
    /\ ts.rows[3].city = "Daejeon"

ShowsChart == \E i \in 1..Len(ui) : ui[i].kind \in {"chart", "dataframe"}

\* C7: when the combined table has zero rows the script shows the
\* data-unavailable error and stops there, with no chart and no snapshot; the
\* chart and the snapshot are reached only with a non-empty combined table.
C7_EmptyIsTerminal ==
    /\ [](/\ (Loaded /\ ts.rows = <<>>) => (spc \in {"loaded", "stopped"} /\ ~ShowsChart)
          /\ spc = "stopped" =>
                (ts.rows = <<>> /\ ui = <<[kind |-> "error", text |-> "data loading failed"]>>)
          /\ (spc \in {"filtered", "charted", "snapshot"} \/ ShowsChart) =>
                (Loaded /\ ts.rows # <<>>))
    /\ [][/\ (spc = "loaded" /\ ts.rows = <<>>) => spc' = "stopped"
          /\ spc # "stopped"]_vars

\* every province answered without a row and the script stopped on the error
C7_Witness ==
    /\ spc = "stopped"
    /\ Len(calls) = 4
    /\ \E i \in 1..4 : calls[i].result.value.dtype = "datetime64"
    /\ ui = <<[kind |-> "error", text |-> "data loading failed"]>>

=============================================================================
